---- MODULE Spec2Model ----
(***************************************************************************)
(* Model of src/Task1.py: a one-shot credit-scoring script.  It generates  *)
(* a synthetic dataset, derives three ratio features, splits 80/20, trains *)
(* four candidate pipelines that share one preprocessor object, selects    *)
(* the best by F1, reports, cross-validates, tunes (Random Forest only),   *)
(* scores one example record and dumps the selected pipeline.              *)
(*                                                                         *)
(* Numbers.  Columns drawn as floats are kept exact:                       *)
(*   - inside generate_credit_data the percentage columns (beta * 100) and *)
(*     the age draw are integers counting tenths, income / credit_age /    *)
(*     loan_amount are whole numbers, and probabilities count units of     *)
(*     1/300000 (the smallest unit in which every coefficient of base_prob *)
(*     is an integer);                                                     *)
(*   - in the data frame every numerical cell is a rational <<n, d>> in    *)
(*     lowest terms, so that the ratio features are exact.                 *)
(***************************************************************************)
EXTENDS Integers, Sequences, FiniteSets, TLC

VARIABLES
    pc,               \* position of the script (next statement group to run)
    failed,           \* an exception propagated out of the script
    stdout,           \* the stage banners printed so far
    credit_data,      \* the data frame: row index -> row
    X_train,          \* row indices of the training split
    X_test,           \* row indices of the test split
    prepState,        \* heap: preprocessor object -> fitted state
    clfState,         \* heap: classifier object -> params and fitted state
    fitLog,           \* every fit of a preprocessor: object, rows, caller
    pipeline,         \* loop variable `pipeline` of the training loop
    results,          \* the results dict, in insertion order
    best_model_name,
    best_model,
    selected,         \* what best_model referred to when it was selected
    best_tuned_model,
    new_applicant,
    prediction,
    prediction_proba,
    confidence,
    file,             \* contents of credit_scoring_model.pkl
    gen_draw,         \* generator only: the raw random draws of one row
    gen_row           \* generator only: the row built from gen_draw

vars == <<pc, failed, stdout, credit_data, X_train, X_test, prepState, clfState,
          fitLog, pipeline, results, best_model_name, best_model, selected,
          best_tuned_model, new_applicant, prediction, prediction_proba,
          confidence, file, gen_draw, gen_row>>

runVars == <<pc, failed, stdout, credit_data, X_train, X_test, prepState,
             clfState, fitLog, pipeline, results, best_model_name, best_model,
             selected, best_tuned_model, new_applicant, prediction,
             prediction_proba, confidence, file>>

\* Python's None, for the names bound to objects, to the class index and the
\* probability, to the name of the best model, and to the probability row
None == [none |-> TRUE]

NoInt == 0 - 1

NoName == ""

NoProba == <<>>

(***************************************************************************)
(* Bounds of the model.                                                    *)
(***************************************************************************)
\* rows of the data frame (n_samples is 10000 in the script)
NRows == 5
\* F1 scores range over the grid 0/F1Max .. F1Max/F1Max
F1Max == 1
\* class probabilities range over the grid 0/(2*PHalf) .. (2*PHalf)/(2*PHalf)
PHalf == 1
\* datasets the run may generate: the first k rows of one kind, k in 1..NDatasets
NDatasets == 2

(***************************************************************************)
(* Exact arithmetic.                                                       *)
(***************************************************************************)
Abs(n) == IF n < 0 THEN -n ELSE n

RECURSIVE GCD(_, _)
GCD(a, b) == IF b = 0 THEN a ELSE GCD(b, a % b)

\* the rational n/d (d # 0) in lowest terms with a positive denominator
Rat(n, d) ==
    LET g == GCD(Abs(n), Abs(d))
        s == IF d < 0 THEN -1 ELSE 1
    IN  <<(s * n) \div g, (s * d) \div g>>

RatAdd(a, b) == Rat(a[1] * b[2] + b[1] * a[2], a[2] * b[2])

RatDiv(a, b) == Rat(a[1] * b[2], a[2] * b[1])

\* np.clip(x, lo, hi)
Clip(x, lo, hi) == IF x < lo THEN lo ELSE IF x > hi THEN hi ELSE x

\* ndarray.astype(int) of a float given in tenths: truncation toward zero
AsTypeInt(tenths) == IF tenths < 0 THEN -((-tenths) \div 10) ELSE tenths \div 10

(***************************************************************************)
(* generate_credit_data, one row.  `d` holds the row's random draws.       *)
(***************************************************************************)
employment_options == <<"employed", "self-employed", "unemployed", "retired">>

home_options == <<"mortgage", "own", "rent", "other">>

\* 0.1, 0.05, -0.2, 0.0 in units of 1/300000
emp_status_map ==
    [s \in {"employed", "self-employed", "unemployed", "retired"} |->
        CASE s = "employed" -> 30000
          [] s = "self-employed" -> 15000
          [] s = "unemployed" -> -60000
          [] s = "retired" -> 0]

\* 0.05, 0.1, -0.05, -0.1 in units of 1/300000
home_status_map ==
    [s \in {"mortgage", "own", "rent", "other"} |->
        CASE s = "mortgage" -> 15000
          [] s = "own" -> 30000
          [] s = "rent" -> -15000
          [] s = "other" -> -30000]

GenAge(d) == Clip(AsTypeInt(d.age), 18, 100)

GenIncome(d) == Clip(d.income, 20000, 200000)

GenNumCreditLines(d) == Clip(d.num_credit_lines, 1, 20)

GenCreditAge(d) == Clip(d.credit_age, 0, 50)

\* lines 52-60, in units of 1/300000; income and credit_age are the clipped ones
WeightedSum(d) ==
      (9 * GenIncome(d)) \div 10
    + 60 * d.payment_history
    - 45 * d.debt_to_income
    - 30 * d.credit_utilization
    - 3000 * d.derogatory_marks
    + 1000 * GenCreditAge(d)
    - 3000 * d.recent_inquiries

\* lines 65-66: the per-row offsets
WithOffsets(d) ==
    WeightedSum(d) + emp_status_map[d.employment_status]
                   + home_status_map[d.home_status]

\* clipping before the offsets are added
BaseProbClipFirst(d) ==
    Clip(WeightedSum(d), 15000, 285000) + emp_status_map[d.employment_status]
                                        + home_status_map[d.home_status]

\* line 68: np.clip(base_prob, 0.05, 0.95)
ClipProb(p) == Clip(p, 15000, 285000)

BaseProb(d) == ClipProb(WithOffsets(d))

\* line 69: np.random.binomial(1, p); numpy rejects p outside [0, 1]
Binomial(p, u) ==
    IF p < 0 \/ p > 300000 THEN "ValueError"
    ELSE IF p = 0 THEN 0
    ELSE IF p = 300000 THEN 1
    ELSE u

\* lines 71-85: the row of the data frame
GenerateRow(d) ==
    [age |-> Rat(GenAge(d), 1),
     income |-> Rat(GenIncome(d), 1),
     debt_to_income_ratio |-> Rat(d.debt_to_income, 10),
     credit_utilization |-> Rat(d.credit_utilization, 10),
     number_of_credit_lines |-> Rat(GenNumCreditLines(d), 1),
     payment_history_score |-> Rat(d.payment_history, 10),
     derogatory_marks |-> Rat(d.derogatory_marks, 1),
     credit_age_years |-> Rat(GenCreditAge(d), 1),
     recent_inquiries |-> Rat(d.recent_inquiries, 1),
     employment_status |-> d.employment_status,
     home_ownership |-> d.home_status,
     loan_amount |-> Rat(d.loan_amount, 1),
     creditworthy |-> Binomial(BaseProb(d), d.label)]

\* The random draws of one row, over values on both sides of every clip.
DrawSet ==
    [age : {-55, 179, 455, 1009},
     income : {5000, 60000, 900000},
     debt_to_income : {100, 900},
     credit_utilization : {400},
     num_credit_lines : {0, 8, 25},
     payment_history : {50, 950},
     derogatory_marks : {0, 6},
     credit_age : {0, 12, 90},
     recent_inquiries : {1},
     employment_status : {employment_options[j] : j \in 1..Len(employment_options)},
     home_status : {home_options[j] : j \in 1..Len(home_options)},
     loan_amount : {15000},
     label : {0, 1}]

(***************************************************************************)
(* The data frame and the feature engineering of lines 99-107.             *)
(***************************************************************************)
Rows == DOMAIN credit_data

categorical_cols == {"employment_status", "home_ownership"}

DerivedCols ==
    {"income_to_loan_ratio", "credit_lines_per_year",
     "payment_history_to_credit_age"}

\* X.columns without the categorical ones (X has no creditworthy column)
numerical_cols ==
    {"age", "income", "debt_to_income_ratio", "credit_utilization",
     "number_of_credit_lines", "payment_history_score", "derogatory_marks",
     "credit_age_years", "recent_inquiries", "loan_amount"} \cup DerivedCols

\* lines 99-101, for one row
FeatureEngineer(r) ==
    [income_to_loan_ratio |-> RatDiv(r.income, r.loan_amount),
     credit_lines_per_year |->
         RatDiv(r.number_of_credit_lines, RatAdd(r.credit_age_years, Rat(1, 1))),
     payment_history_to_credit_age |->
         RatDiv(r.payment_history_score, RatAdd(r.credit_age_years, Rat(1, 1)))]

\* lines 278-294: the example record, its derived cells as the script writes them
NewApplicant ==
    [age |-> Rat(35, 1),
     income |-> Rat(75000, 1),
     debt_to_income_ratio |-> Rat(255, 10),
     credit_utilization |-> Rat(302, 10),
     number_of_credit_lines |-> Rat(5, 1),
     payment_history_score |-> Rat(855, 10),
     derogatory_marks |-> Rat(0, 1),
     credit_age_years |-> Rat(8, 1),
     recent_inquiries |-> Rat(1, 1),
     employment_status |-> "employed",
     home_ownership |-> "mortgage",
     loan_amount |-> Rat(15000, 1),
     income_to_loan_ratio |-> RatDiv(Rat(75000, 1), Rat(15000, 1)),
     credit_lines_per_year |-> RatDiv(Rat(5, 1), Rat(8, 1)),
     payment_history_to_credit_age |-> RatDiv(Rat(855, 10), Rat(8, 1))]

(***************************************************************************)
(* The preprocessor (lines 109-123) and what fitting it learns.            *)
(***************************************************************************)
RECURSIVE ColumnSum(_, _)
ColumnSum(R, col) ==
    IF R = {} THEN Rat(0, 1)
    ELSE LET i == CHOOSE i \in R : TRUE
         IN  RatAdd(credit_data[i][col], ColumnSum(R \ {i}, col))

\* ColumnTransformer.fit on the rows R: per numerical column the scaler's mean,
\* per categorical column the encoder's learned categories
FitPreprocessor(R) ==
    [n_samples_seen |-> Cardinality(R),
     mean |-> [c \in numerical_cols |->
                  RatDiv(ColumnSum(R, c), Rat(Cardinality(R), 1))],
     categories |-> [c \in categorical_cols |-> {credit_data[i][c] : i \in R}]]

Unfitted == [unfitted |-> TRUE]

\* line 119: the one module-level ColumnTransformer object
preprocessor == <<"preprocessor", "original", 0>>

\* lines 134-139: the models dict, in insertion order
ModelNames ==
    <<"Logistic Regression", "Decision Tree", "Random Forest", "Gradient Boosting">>

ModelRef(name) == <<name, "original", 0>>

\* lines 135-138: constructor parameters (max_depth 0 stands for None)
InitialParams(name) ==
    IF name = "Random Forest"
    THEN [n_estimators |-> 100, max_depth |-> 0, min_samples_split |-> 2]
    ELSE [n_estimators |-> 0, max_depth |-> 0, min_samples_split |-> 2]

\* lines 145-148: Pipeline(steps=[('preprocessor', preprocessor), ('classifier', model)])
MakePipeline(name) == [prep |-> preprocessor, clf |-> ModelRef(name)]

\* a cross_val_score / GridSearchCV that fitted the estimator it was given
CloneInPlace(p, stage, k) == p

\* sklearn.base.clone as used by cross_val_score and GridSearchCV: fresh,
\* unfitted copies of both steps
Clone(p, stage, k) ==
    [prep |-> <<p.prep[1], stage, k>>, clf |-> <<p.clf[1], stage, k>>]

\* Pipeline.fit(rows): fits the preprocessor step in place, then the classifier
\* on the transformed rows.  A fit is [p |-> pipeline, rows |-> R]; after a
\* sequence of fits an object holds the state of the last fit that reached it.
LastFit(fits, hits) == fits[CHOOSE j \in hits : \A h \in hits : h <= j]

FitPrepSteps(ps, fits) ==
    [r \in DOMAIN ps |->
        LET hits == {j \in 1..Len(fits) : fits[j].p.prep = r}
        IN  IF hits = {} THEN ps[r]
            ELSE FitPreprocessor(LastFit(fits, hits).rows)]

FitClfSteps(cs, fits) ==
    [r \in DOMAIN cs |->
        LET hits == {j \in 1..Len(fits) : fits[j].p.clf = r}
        IN  IF hits = {} THEN cs[r]
            ELSE [cs[r] EXCEPT !.fit =
                     [rows |-> LastFit(fits, hits).rows,
                      prep |-> FitPreprocessor(LastFit(fits, hits).rows)]]]

LogOf(fits, stage) ==
    {[prep |-> fits[j].p.prep, clf |-> fits[j].p.clf, rows |-> fits[j].rows,
      by |-> stage] : j \in 1..Len(fits)}

\* the fitted state a pipeline object currently has
Snapshot(p) ==
    [pipeline |-> p, prep |-> prepState[p.prep], clf |-> clfState[p.clf]]

(***************************************************************************)
(* Splits.                                                                 *)
(***************************************************************************)
\* train_test_split(test_size=0.2): n_test = ceil(0.2 * n)
TestSize(n) == (2 * n + 9) \div 10

\* The k folds of an integer cv over the rows R: the first n % k folds hold
\* n \div k + 1 rows, the others n \div k.  Rows go to folds in index order
\* (for a classifier scikit-learn also balances the labels inside each fold,
\* which changes which rows share a fold, not the sizes nor that every row is
\* on the training side of all folds but its own).
FoldOf(R, k, i) ==
    LET n == Cardinality(R)
        q == n \div k
        m == n % k
        r == Cardinality({j \in R : j < i})
    IN  IF r < m * (q + 1) THEN r \div (q + 1) + 1
        ELSE m + (r - m * (q + 1)) \div q + 1

TrainFold(R, k, j) == {i \in R : FoldOf(R, k, i) # j}

\* line 245: cv=5
CvFolds == 5
\* line 261: cv=3
GridCvFolds == 3
\* lines 252-256: 3 x 3 x 3 parameter combinations
GridSize == 27

\* line 245: the rows handed to cross_val_score (X, the whole frame)
CvData == Rows

\* line 267: the rows handed to grid_search.fit
GridData == X_train

(***************************************************************************)
(* Library behaviour the script relies on.                                 *)
(***************************************************************************)
\* a scan that lets a later equal value replace the running best
BetterOrEqual(a, b) == a >= b

\* Series.idxmax (line 185): the label of the first occurrence of the maximum;
\* the scan replaces the running best only by a strictly greater value.
Better(a, b) == a > b

RECURSIVE ArgMaxFrom(_, _, _)
ArgMaxFrom(seq, i, best) ==
    IF i > Len(seq) THEN best
    ELSE ArgMaxFrom(seq, i + 1, IF Better(seq[i].f1, seq[best].f1) THEN i ELSE best)

IdxMax(seq) == seq[ArgMaxFrom(seq, 2, 1)].name

\* results[name] for a name stored in the dict
ResultOf(seq, name) == seq[CHOOSE i \in 1..Len(seq) : seq[i].name = name]

\* predict() of the classifier families of lines 135-138 on a probability pair
\* proba = [0 |-> P(class 0), 1 |-> P(class 1)]:
\*   logistic regression: class 1 iff the decision value is > 0, iff p1 > p0;
\*   decision tree, random forest: classes_[argmax(proba)], first maximum;
\*   gradient boosting: class 1 iff the raw prediction is >= 0, iff p1 >= p0.
Predict(name, proba) ==
    IF name = "Gradient Boosting"
    THEN (IF proba[1] >= proba[0] THEN 1 ELSE 0)
    ELSE (IF proba[1] > proba[0] THEN 1 ELSE 0)

\* the positive-class probability, whatever was predicted
ConfidencePositiveClass(proba, pred) == proba[1]

\* line 300: confidence = prediction_proba[0][prediction[0]]
Confidence(proba, pred) == proba[pred]

\* tuning whatever was selected
TuneAlways(name) == TRUE

\* line 249: the guard of the tuning block
TuneGuard(name) == name = "Random Forest"

\* dumping the tuned estimator when there is one
PersistedTuned ==
    IF best_tuned_model # None THEN best_tuned_model.pipeline ELSE best_model

\* line 304: the object handed to joblib.dump
PersistedObject == best_model

\* a training loop that swallows the exceptions of its body
RunningPastTrainingErrors == ~failed \/ pc \in {"train_fit", "train_eval"}

\* No statement of the script sits in a try block: once an exception has
\* propagated, nothing else runs.
Running == ~failed

(***************************************************************************)
(* The run.                                                                *)
(***************************************************************************)
\* The draws of the run's rows: two applicants, one well above and one well
\* below the middle of the score range; the first k rows draw the first
\* (k <= NDatasets < NRows, so both kinds occur in every dataset).
GoodDraw ==
    [age |-> 455, income |-> 60000, debt_to_income |-> 100,
     credit_utilization |-> 400, num_credit_lines |-> 8, payment_history |-> 950,
     derogatory_marks |-> 0, credit_age |-> 12, recent_inquiries |-> 1,
     employment_status |-> "employed", home_status |-> "own",
     loan_amount |-> 15000, label |-> 1]

BadDraw ==
    [age |-> 179, income |-> 5000, debt_to_income |-> 900,
     credit_utilization |-> 400, num_credit_lines |-> 0, payment_history |-> 50,
     derogatory_marks |-> 6, credit_age |-> 0, recent_inquiries |-> 1,
     employment_status |-> "unemployed", home_status |-> "other",
     loan_amount |-> 20000, label |-> 0]

RunInit ==
    /\ pc = "generate"
    /\ failed = FALSE
    /\ stdout = <<>>
    /\ credit_data = <<>>
    /\ X_train = {}
    /\ X_test = {}
    /\ prepState = <<>>
    /\ clfState = <<>>
    /\ fitLog = {}
    /\ pipeline = None
    /\ results = <<>>
    /\ best_model_name = NoName
    /\ best_model = None
    /\ selected = None
    /\ best_tuned_model = None
    /\ new_applicant = None
    /\ prediction = NoInt
    /\ prediction_proba = NoProba
    /\ confidence = NoInt
    /\ file = None

Init ==
    /\ RunInit
    /\ gen_draw = None
    /\ gen_row = None

\* lines 89-95
Generate ==
    /\ Running /\ pc = "generate"
    /\ \E k \in 1..NDatasets :
          credit_data' = [i \in 1..NRows |->
                             GenerateRow(IF i <= k THEN GoodDraw ELSE BadDraw)]
    /\ stdout' = Append(stdout, "Generating synthetic credit data...")
    /\ pc' = "engineer"
    /\ UNCHANGED <<failed, X_train, X_test, prepState, clfState, fitLog, pipeline,
                   results, best_model_name, best_model, selected,
                   best_tuned_model, new_applicant, prediction, prediction_proba,
                   confidence, file, gen_draw, gen_row>>

\* lines 97-101
Engineer ==
    /\ Running /\ pc = "engineer"
    /\ credit_data' = [i \in Rows |-> credit_data[i] @@ FeatureEngineer(credit_data[i])]
    /\ stdout' = Append(stdout, "Performing data preprocessing and feature engineering...")
    /\ pc' = "preprocess"
    /\ UNCHANGED <<failed, X_train, X_test, prepState, clfState, fitLog, pipeline,
                   results, best_model_name, best_model, selected,
                   best_tuned_model, new_applicant, prediction, prediction_proba,
                   confidence, file, gen_draw, gen_row>>

\* lines 103-139: the unfitted preprocessor, the split (random_state fixes which
\* rows are held out; the model lets it be any set of the right size), the
\* unfitted models
Preprocess ==
    /\ Running /\ pc = "preprocess"
    /\ \E T \in SUBSET Rows :
          /\ Cardinality(T) = TestSize(Cardinality(Rows))
          /\ X_test' = T
          /\ X_train' = Rows \ T
    /\ prepState' = (preprocessor :> Unfitted)
    /\ clfState' = [r \in {ModelRef(ModelNames[j]) : j \in 1..Len(ModelNames)} |->
                       [params |-> InitialParams(r[1]), fit |-> Unfitted]]
    /\ stdout' = Append(stdout, "Training set size")
    /\ pc' = "train_fit"
    /\ UNCHANGED <<failed, credit_data, fitLog, pipeline, results, best_model_name,
                   best_model, selected, best_tuned_model, new_applicant,
                   prediction, prediction_proba, confidence, file, gen_draw,
                   gen_row>>

\* the candidate of the current iteration of the loop of line 142
Candidate == ModelNames[Len(results) + 1]

\* later candidates fitted on the whole frame
TrainDataWholeFrameLater == IF results = <<>> THEN X_train ELSE Rows

\* line 150: the rows handed to pipeline.fit
TrainData == X_train

\* lines 143-150
TrainFit ==
    /\ Running /\ pc = "train_fit"
    /\ LET p == MakePipeline(Candidate)
           fits == <<[p |-> p, rows |-> TrainData]>>
       IN  /\ pipeline' = p
           /\ prepState' = FitPrepSteps(prepState, fits)
           /\ clfState' = FitClfSteps(clfState, fits)
           /\ fitLog' = fitLog \cup LogOf(fits, "train")
    /\ stdout' = Append(stdout, "Training")
    /\ pc' = "train_eval"
    /\ UNCHANGED <<failed, credit_data, X_train, X_test, results, best_model_name,
                   best_model, selected, best_tuned_model, new_applicant,
                   prediction, prediction_proba, confidence, file, gen_draw,
                   gen_row>>

\* lines 152-175: the metrics on the test split (any F1 of the grid) and the
\* entry of the results dict
TrainEvaluate ==
    /\ Running /\ pc = "train_eval"
    /\ \E f1 \in 0..F1Max :
          results' = Append(results, [name |-> Candidate, f1 |-> f1, model |-> pipeline])
    /\ stdout' = Append(stdout, "Results:")
    /\ pc' = IF Len(results) + 1 = Len(ModelNames) THEN "select" ELSE "train_fit"
    /\ UNCHANGED <<failed, credit_data, X_train, X_test, prepState, clfState,
                   fitLog, pipeline, best_model_name, best_model, selected,
                   best_tuned_model, new_applicant, prediction, prediction_proba,
                   confidence, file, gen_draw, gen_row>>

\* lines 177-187
Select ==
    /\ Running /\ pc = "select"
    /\ best_model_name' = IdxMax(results)
    /\ best_model' = ResultOf(results, IdxMax(results)).model
    /\ selected' = Snapshot(ResultOf(results, IdxMax(results)).model)
    /\ stdout' = Append(stdout, "MODEL PERFORMANCE COMPARISON")
    /\ pc' = "report"
    /\ UNCHANGED <<failed, credit_data, X_train, X_test, prepState, clfState,
                   fitLog, pipeline, results, best_tuned_model, new_applicant,
                   prediction, prediction_proba, confidence, file, gen_draw,
                   gen_row>>

\* lines 189-242: predictions on the test split, the report, the plots
Report ==
    /\ Running /\ pc = "report"
    /\ stdout' = Append(stdout, "Detailed evaluation")
    /\ pc' = "cv"
    /\ UNCHANGED <<failed, credit_data, X_train, X_test, prepState, clfState,
                   fitLog, pipeline, results, best_model_name, best_model,
                   selected, best_tuned_model, new_applicant, prediction,
                   prediction_proba, confidence, file, gen_draw, gen_row>>

\* lines 244-247: cross_val_score fits one clone of best_model per fold
CrossValidate ==
    /\ Running /\ pc = "cv"
    /\ LET fits == [j \in 1..CvFolds |->
                       [p |-> Clone(best_model, "cv", j),
                        rows |-> TrainFold(CvData, CvFolds, j)]]
       IN  /\ prepState' = FitPrepSteps(prepState, fits)
           /\ clfState' = FitClfSteps(clfState, fits)
           /\ fitLog' = fitLog \cup LogOf(fits, "cv")
    /\ stdout' = Append(stdout, "Performing cross-validation")
    /\ pc' = "tune"
    /\ UNCHANGED <<failed, credit_data, X_train, X_test, pipeline, results,
                   best_model_name, best_model, selected, best_tuned_model,
                   new_applicant, prediction, prediction_proba, confidence, file,
                   gen_draw, gen_row>>

\* lines 249-275: GridSearchCV fits one clone per parameter combination and
\* fold, then refits one more clone, with the best parameters, on all the rows
\* it was given; that clone is best_estimator_
Tune ==
    /\ Running /\ pc = "tune" /\ TuneGuard(best_model_name)
    /\ LET tries == [j \in 1..(GridSize * GridCvFolds) |->
                        [p |-> Clone(best_model, "tune", j),
                         rows |-> TrainFold(GridData, GridCvFolds,
                                            ((j - 1) % GridCvFolds) + 1)]]
           refit == [p |-> Clone(best_model, "refit", 0), rows |-> GridData]
           fits == Append(tries, refit)
       IN  /\ prepState' = FitPrepSteps(prepState, fits)
           /\ clfState' = FitClfSteps(clfState, fits)
           /\ fitLog' = fitLog \cup LogOf(fits, "tune")
           /\ best_tuned_model' =
                 [pipeline |-> refit.p,
                  prep |-> FitPreprocessor(GridData),
                  clf |-> [params |-> "best_params_",
                           fit |-> [rows |-> GridData,
                                    prep |-> FitPreprocessor(GridData)]]]
    /\ stdout' = Append(stdout, "Performing hyperparameter tuning")
    /\ pc' = "predict"
    /\ UNCHANGED <<failed, credit_data, X_train, X_test, pipeline, results,
                   best_model_name, best_model, selected, new_applicant,
                   prediction, prediction_proba, confidence, file, gen_draw,
                   gen_row>>

\* line 249, guard false
SkipTune ==
    /\ Running /\ pc = "tune" /\ ~TuneGuard(best_model_name)
    /\ pc' = "predict"
    /\ UNCHANGED <<failed, stdout, credit_data, X_train, X_test, prepState,
                   clfState, fitLog, pipeline, results, best_model_name,
                   best_model, selected, best_tuned_model, new_applicant,
                   prediction, prediction_proba, confidence, file, gen_draw,
                   gen_row>>

\* lines 277-302: the classifier may return any probability pair of the grid
PredictOne ==
    /\ Running /\ pc = "predict"
    /\ new_applicant' = NewApplicant
    /\ \E p1 \in 0..(2 * PHalf) :
          LET proba == (0 :> (2 * PHalf - p1)) @@ (1 :> p1)
              pred == Predict(best_model.clf[1], proba)
          IN  /\ prediction_proba' = proba
              /\ prediction' = pred
              /\ confidence' = Confidence(proba, pred)
    /\ stdout' = Append(stdout, "Example prediction on new data:")
    /\ pc' = "persist"
    /\ UNCHANGED <<failed, credit_data, X_train, X_test, prepState, clfState,
                   fitLog, pipeline, results, best_model_name, best_model,
                   selected, best_tuned_model, file, gen_draw, gen_row>>

\* what joblib.dump serialises of the object it is given
Dump(obj) ==
    IF best_tuned_model # None /\ obj = best_tuned_model.pipeline
    THEN best_tuned_model
    ELSE Snapshot(obj)

\* lines 304-305
Persist ==
    /\ Running /\ pc = "persist"
    /\ file' = Dump(PersistedObject)
    /\ stdout' = Append(stdout, "Best model saved")
    /\ pc' = "done"
    /\ UNCHANGED <<failed, credit_data, X_train, X_test, prepState, clfState,
                   fitLog, pipeline, results, best_model_name, best_model,
                   selected, best_tuned_model, new_applicant, prediction,
                   prediction_proba, confidence, gen_draw, gen_row>>

\* an exception in the statements at pc: it propagates and the process ends
Fail ==
    /\ Running /\ pc # "done"
    /\ failed' = TRUE
    /\ UNCHANGED <<pc, stdout, credit_data, X_train, X_test, prepState, clfState,
                   fitLog, pipeline, results, best_model_name, best_model,
                   selected, best_tuned_model, new_applicant, prediction,
                   prediction_proba, confidence, file, gen_draw, gen_row>>

Next ==
    \/ Generate
    \/ Engineer
    \/ Preprocess
    \/ TrainFit
    \/ TrainEvaluate
    \/ Select
    \/ Report
    \/ CrossValidate
    \/ Tune
    \/ SkipTune
    \/ PredictOne
    \/ Persist
    \/ Fail

Spec == Init /\ [][Next]_vars

PcSet ==
    {"generate", "engineer", "preprocess", "train_fit", "train_eval", "select",
     "report", "cv", "tune", "predict", "persist", "done"}

\* the control-flow side of a step that is not a failure: the script moves on
\* (every action but Fail changes pc, and Fail leaves pc alone)
Advance == Running /\ pc # "done" /\ \E q \in PcSet \ {pc} : pc' = q

\* the interpreter keeps running the next statements until the script ends or
\* an exception ends it
FairSpec == Spec /\ WF_pc(Advance)

(***************************************************************************)
(* generate_credit_data on its own, over DrawSet.                          *)
(***************************************************************************)
GenInit ==
    /\ RunInit
    /\ gen_draw \in DrawSet
    /\ gen_row = None

\* lines 24-85 for one row; base_prob is the probability passed to binomial
GenApply ==
    /\ gen_row = None
    /\ gen_row' = [row |-> GenerateRow(gen_draw), base_prob |-> BaseProb(gen_draw)]
    /\ UNCHANGED <<gen_draw, runVars>>

GenNext == GenApply

GenSpec == GenInit /\ [][GenNext]_vars

(***************************************************************************)
(* Properties.                                                             *)
(***************************************************************************)
Max(a, b) == IF a >= b THEN a ELSE b

\* the fits of the module-level preprocessor object
OwnFits == {e \in fitLog : e.prep = preprocessor}

\* candidates whose pipeline.fit has returned
CandidatesFitted == Len(results) + (IF pc = "train_eval" THEN 1 ELSE 0)

\* the stage a banner belongs to
StageOf(banner) ==
    CASE banner = "Generating synthetic credit data..." -> "generate"
      [] banner = "Performing data preprocessing and feature engineering..." -> "engineer"
      [] banner = "Training set size" -> "preprocess-fit"
      [] banner \in {"Training", "Results:"} -> "train-all"
      [] banner = "MODEL PERFORMANCE COMPARISON" -> "select"
      [] banner \in {"Detailed evaluation", "Performing cross-validation"} -> "report"
      [] banner = "Performing hyperparameter tuning" -> "tune"
      [] banner = "Example prediction on new data:" -> "predict-one"
      [] banner = "Best model saved" -> "persist"

\* the stages in the order they were entered, each entry once per entering
RECURSIVE StageTrace(_)
StageTrace(out) ==
    IF out = <<>> THEN <<>>
    ELSE LET before == StageTrace(SubSeq(out, 1, Len(out) - 1))
             st == StageOf(out[Len(out)])
         IN  IF before # <<>> /\ before[Len(before)] = st THEN before
             ELSE Append(before, st)

LinearWithTune ==
    <<"generate", "engineer", "preprocess-fit", "train-all", "select", "report",
      "tune", "predict-one", "persist">>

LinearWithoutTune ==
    <<"generate", "engineer", "preprocess-fit", "train-all", "select", "report",
      "predict-one", "persist">>

IsPrefix(a, b) == Len(a) <= Len(b) /\ a = SubSeq(b, 1, Len(a))

Tuned == \E j \in 1..Len(stdout) : StageOf(stdout[j]) = "tune"

\* C1 as claimed: over the whole run the preprocessor is fit exactly once, on
\* the training split, and no later operation fits it again.
C1_FitExactlyOnce == Cardinality(OwnFits) <= 1

\* C1 as amended: the preprocessor object is fit once per trained candidate
\* (four times over the run), every time on the training split and only by the
\* training loop, so whenever it is fitted its state is the state of a single
\* fit on the training split; evaluation, cross-validation, grid search and the
\* example prediction never fit that object (they fit clones or none).
C1_FitOncePerCandidate ==
    /\ \A e \in OwnFits : e.by = "train" /\ e.rows = X_train
    /\ Cardinality(OwnFits) = CandidatesFitted
    /\ Cardinality(OwnFits) <= Len(ModelNames)
    /\ OwnFits # {} => prepState[preprocessor] = FitPreprocessor(X_train)

C1_Witness ==
    /\ pc = "done"
    /\ best_tuned_model # None
    /\ Cardinality(OwnFits) = 4
    /\ \E e \in fitLog : e.by = "cv"

\* C2: for the example applicant each derived value fed to the pipeline equals
\* the feature-engineering formula applied to the record's own raw values.
C2_ExampleDerivedByFormula ==
    new_applicant # None =>
        \A c \in DerivedCols : new_applicant[c] = FeatureEngineer(new_applicant)[c]

\* C3: in every fit of the preprocessing pipeline during the run (candidate
\* training, cross-validation, grid search) the rows passed to the fit contain
\* no row of the test split.
C3_NoTestRowInAnyFit == \A e \in fitLog : e.rows \cap X_test = {}

\* C4: the selected entry has the maximum F1 of the results table, among equal
\* maxima it is the one inserted first (the table keeps the order Logistic
\* Regression, Decision Tree, Random Forest, Gradient Boosting), and best_model
\* is that entry's pipeline.
C4_FirstMaxSelected ==
    selected # None =>
        /\ [j \in 1..Len(results) |-> results[j].name] = ModelNames
        /\ \E i \in 1..Len(results) :
              /\ results[i].name = best_model_name
              /\ best_model = results[i].model
              /\ \A j \in 1..Len(results) : results[j].f1 <= results[i].f1
              /\ \A j \in 1..(i - 1) : results[j].f1 < results[i].f1

C4_Witness ==
    /\ selected # None
    /\ best_model_name = "Decision Tree"
    /\ results[1].f1 < results[2].f1
    /\ results[3].f1 = results[2].f1
    /\ results[4].f1 = results[2].f1

\* C5: from selection on the selected pipeline keeps the fitted state it had
\* when it was selected, and the file holds that pipeline in that state; the
\* tuned best estimator is another object and is not the one in the file.
C5_SelectedPipelinePersisted ==
    /\ selected # None =>
          /\ selected.pipeline = best_model
          /\ Snapshot(best_model) = selected
    /\ file # None =>
          /\ file = selected
          /\ best_tuned_model # None => file.pipeline # best_tuned_model.pipeline

C5_Witness ==
    /\ file # None
    /\ best_tuned_model # None
    /\ \E e \in fitLog : e.by = "tune"

\* the order part of C6, as a predicate on the banners printed so far
C6_Order ==
    /\ \/ IsPrefix(StageTrace(stdout), LinearWithTune)
       \/ IsPrefix(StageTrace(stdout), LinearWithoutTune)
    /\ pc \in {"predict", "persist", "done"} =>
          (Tuned <=> best_model_name = "Random Forest")
    /\ pc = "done" =>
          StageTrace(stdout) = (IF best_model_name = "Random Forest"
                                THEN LinearWithTune ELSE LinearWithoutTune)

C7_ConfidenceIsMax ==
    new_applicant # None =>
        /\ confidence = Max(prediction_proba[0], prediction_proba[1])
        /\ prediction \in {0, 1}
        /\ prediction_proba[prediction] = Max(prediction_proba[0], prediction_proba[1])

C7_Witness ==
    /\ new_applicant # None
    /\ prediction_proba[0] = prediction_proba[1]
    /\ best_model_name = "Gradient Boosting"
    /\ prediction = 1

\* the file part of C8
C8_FileOnlyAfterAll ==
    /\ failed => file = None
    /\ file # None =>
          \A j \in 1..(Len(LinearWithoutTune) - 1) :
              \E n \in 1..Len(stdout) : StageOf(stdout[n]) = LinearWithoutTune[j]

InRange(cell, lo, hi) == cell[2] = 1 /\ lo <= cell[1] /\ cell[1] <= hi

C9_GeneratedRanges ==
    gen_row # None =>
        /\ 15000 <= gen_row.base_prob /\ gen_row.base_prob <= 285000
        /\ gen_row.row.creditworthy \in {0, 1}
        /\ InRange(gen_row.row.age, 18, 100)
        /\ InRange(gen_row.row.income, 20000, 200000)
        /\ InRange(gen_row.row.credit_age_years, 0, 50)
        /\ InRange(gen_row.row.number_of_credit_lines, 1, 20)

C9_Witness ==
    /\ gen_row # None
    /\ WeightedSum(gen_draw) < 285000
    /\ WithOffsets(gen_draw) > 285000
    /\ gen_draw.age < 180
    /\ gen_draw.income > 200000
    /\ gen_draw.credit_age > 50
    /\ gen_draw.num_credit_lines < 1

\* C10: every pipeline stored in the results table holds the one preprocessor
\* object, which has been fitted once per candidate so far; its state is that
\* of a single fit on the training split, and it is the state every stored
\* classifier was trained against.
C10_SharedPreprocessor ==
    /\ Cardinality(OwnFits) >= Len(results)
    /\ results # <<>> =>
          LET single == FitPreprocessor(X_train)
          IN  \A j \in 1..Len(results) :
                 /\ results[j].model.prep = preprocessor
                 /\ prepState[results[j].model.prep] = single
                 /\ clfState[results[j].model.clf].fit.prep = single
                 /\ clfState[results[j].model.clf].fit.rows = X_train

C10_Witness ==
    /\ pc = "train_fit"
    /\ Len(results) = 3
    /\ Cardinality(OwnFits) = 3

====
